---- MODULE Spec2Model ----
(***************************************************************************)
(* Session orchestration of the chat backend: rate limiter, context        *)
(* retriever, model router and the history operations, over the Context    *)
(* Store (PostgresStore) and the Checkpoint Store (PostgresSaver).         *)
(*                                                                         *)
(* Time is counted in whole hours.  Request bodies are records whose       *)
(* absent keys are absent fields (data.get).  The "model" strings are      *)
(* sequences of characters so that .lower() is computed, every other       *)
(* string is a TLA+ string.                                                *)
(***************************************************************************)
EXTENDS Integers, Sequences, FiniteSets, TLC

VARIABLES
    store,      \* Context Store: set of items [namespace, key, value]
    threads,    \* Checkpoint Store: thread_id -> messages of the latest checkpoint
    now,        \* datetime.utcnow(), in hours
    uuids,      \* number of uuid4() keys generated so far
    faults,     \* number of failures the environment has injected so far
    clears,     \* number of clear calls that deleted something so far
    issued,     \* user_id -> the expires_at of the last limit a response reported
    turns,      \* thread_id -> chat turns answered 200 since the thread was last cleared
    last,       \* the last handler run: its request, response and store/model accesses
    graph,      \* a chat graph run on its own: [model_type, node, ran]
    calls       \* chat calls running at the same time: where each one is, and
                \* the stores as they were when the first of them began

vars == <<store, threads, now, uuids, faults, clears, issued, turns, last, graph, calls>>

(***************************************************************************)
(* Bounds of the model.                                                    *)
(***************************************************************************)
MaxTime == 4
MaxUuids == 7
MaxThreadLen == 14
MaxOtherThreadLen == 0
MaxFaults == 1
MaxClears == 1
MaxOtherItems == 1
MaxValidatedTurns == 1
MaxHistoryLen == 4
MaxHistoryClears == 2
MaxIsolationTurns == 4
MaxClearDataTurns == 12
MaxConcurrentTime == 1
MaxConcurrentTurns == 7
MaxConcurrentOtherLen == 2
ConcurrentFrom == 8
MaxAnsweredTurns == 7
MaxAnsweredOtherLen == 2
MaxAnsweredClears == 1
MaxCallerTurns == 7
MaxCallerClears == 1

(***************************************************************************)
(* Program constants.                                                      *)
(***************************************************************************)
RateLimitHours == 4
RateLimitThreshold == 10
MaxMessageLen == 10000
ContextLimit == 3
SearchDefaultLimit == 10
SecondsPerHour == 3600
SecondsPerMinute == 60
DefaultConversationLength == 10

None == "<None>"

\* expires_at = None (line 336)
NoExpiry == -1

RATE_LIMITS == <<"rate_limits">>

\* the fresh keys str(uuid.uuid4()) yields, in the order they are generated
UuidPool == <<"k1", "k2", "k3", "k4", "k5", "k6", "k7", "k8", "k9",
              "k10", "k11", "k12", "k13", "k14", "k15", "k16">>

uuid4(n) == UuidPool[n + 1]

(***************************************************************************)
(* Strings of the "model" field, as character sequences.                   *)
(***************************************************************************)
GPT == <<"g", "p", "t">>
CLAUDE == <<"c", "l", "a", "u", "d", "e">>

LowerChar(c) ==
    CASE c = "A" -> "a" [] c = "C" -> "c" [] c = "D" -> "d" [] c = "E" -> "e"
      [] c = "G" -> "g" [] c = "L" -> "l" [] c = "M" -> "m" [] c = "P" -> "p"
      [] c = "T" -> "t" [] c = "U" -> "u"
      [] OTHER -> c

\* str.lower()
lower(s) == [i \in 1..Len(s) |-> LowerChar(s[i])]

(***************************************************************************)
(* Message texts.  len() is given for the texts the model draws.           *)
(***************************************************************************)
EmptyText == ""
MaxText == "x * 10000"
LongText == "x * 10001"

len(text) ==
    CASE text = EmptyText -> 0
      [] text = MaxText -> MaxMessageLen
      [] text = LongText -> MaxMessageLen + 1
      [] OTHER -> 2

\* Python truthiness of an optional string: None and "" are falsy
Falsy(v) == v = None \/ v = ""

\* dict.get(key, default)
Get(data, key, default) == IF key \in DOMAIN data THEN data[key] ELSE default

(***************************************************************************)
(* Context Store (PostgresStore): put / delete / search.                   *)
(***************************************************************************)
Item(ns, key, value) == [namespace |-> ns, key |-> key, value |-> value]

Put(st, ns, key, value) ==
    {i \in st : ~(i.namespace = ns /\ i.key = key)} \cup {Item(ns, key, value)}

Delete(st, ns, key) == {i \in st : ~(i.namespace = ns /\ i.key = key)}

IsPrefix(p, ns) == Len(p) <= Len(ns) /\ SubSeq(ns, 1, Len(p)) = p

\* the items under a namespace prefix whose value carries every filter field
Matching(st, prefix, filter) ==
    {i \in st : /\ IsPrefix(prefix, i.namespace)
                /\ \A k \in DOMAIN filter :
                      k \in DOMAIN i.value /\ i.value[k] = filter[k]}

Min(a, b) == IF a <= b THEN a ELSE b

\* the item sets a search may return: `limit` of the matching items (all of
\* them when there are fewer), which ones being the store's ranking
SearchSets(st, prefix, filter, limit) ==
    LET m == Matching(st, prefix, filter)
    IN  IF Cardinality(m) <= limit THEN {m}
        ELSE {s \in SUBSET m : Cardinality(s) = limit}

\* the lists of k distinct items of m (of all of them when m has fewer)
RECURSIVE Ranked(_, _)
Ranked(m, k) ==
    IF k = 0 \/ m = {} THEN {<<>>}
    ELSE UNION {{<<x>> \o p : p \in Ranked(m \ {x}, k - 1)} : x \in m}

\* store.search(prefix, filter=, limit=): the result lists a search may
\* return, in whatever order the store ranks the matching items
Search(st, prefix, filter, limit) == Ranked(Matching(st, prefix, filter), limit)

NoFilter == <<>>

(***************************************************************************)
(* utils.py                                                                *)
(***************************************************************************)
\* route_model: the node the conditional entry point selects
\* faulty variant of route_model: the comparison without .lower()
route_model_case_sensitive(model_type) ==
    IF CLAUDE = model_type THEN "claude_chat" ELSE "gpt_chat"

route_model(model_type) ==
    IF CLAUDE = lower(model_type) THEN "claude_chat" ELSE "gpt_chat"

\* get_stored_context: the lists it may return.  `fails` is a store failure
\* inside the try block; a returned item without "data" is a KeyError there.
\* faulty variant of get_stored_context: the search is not confined to the
\* namespace of the user
get_stored_context_any_namespace(st, user_id, limit, fails) ==
    IF fails THEN {<<>>}
    ELSE {IF \A i \in 1..Len(h) : "data" \in DOMAIN h[i].value
          THEN [i \in 1..Len(h) |-> h[i].value.data]
          ELSE <<>> : h \in Search(st, <<>>, NoFilter, limit)}

\* faulty variant of get_stored_context: the search returns one item too many
get_stored_context_off_by_one(st, user_id, limit, fails) ==
    IF fails THEN {<<>>}
    ELSE {IF \A i \in 1..Len(h) : "data" \in DOMAIN h[i].value
          THEN [i \in 1..Len(h) |-> h[i].value.data]
          ELSE <<>> : h \in Search(st, <<user_id>>, NoFilter, limit + 1)}

get_stored_context(st, user_id, limit, fails) ==
    IF fails THEN {<<>>}
    ELSE {IF \A i \in 1..Len(h) : "data" \in DOMAIN h[i].value
          THEN [i \in 1..Len(h) |-> h[i].value.data]
          ELSE <<>> : h \in Search(st, <<user_id>>, NoFilter, limit)}

(***************************************************************************)
(* Messages.                                                               *)
(***************************************************************************)
\* the message as typed
Plain(text) == [context |-> <<>>, question |-> text]

\* "Previous relevant context:\n- c1\n- c2\n\nCurrent question: {message}"
WithContext(ctx, text) == [context |-> ctx, question |-> text]

HumanMessage(content) == [type |-> "human", content |-> content]
AIMessage(content) == [type |-> "ai", content |-> content]

\* llm.invoke(state["messages"]) of a node, when the backend answers
ModelReply(node) == AIMessage(Plain("reply"))

ModelErrors == {"backend unreachable", "invalid api key"}
ModelOutcomes == {"ok"} \cup ModelErrors

(***************************************************************************)
(* main.py: the rate-limit check shared by chat and clear_history.         *)
(***************************************************************************)
\* lines 271-293 / 509-525 for one search result `items` at time t:
\* [limited, record, store, trace]
\* faulty variant of rate_limit_check: the clock is compared with set_at
rate_limit_check_wrong_field(st, user_id, items, t) ==
    IF Len(items) > 0
    THEN LET rate_limit_data == items[1].value
         IN  IF t < rate_limit_data.set_at
             THEN [limited |-> TRUE, record |-> rate_limit_data, store |-> st,
                   trace |-> <<"store.search rate_limits">>]
             ELSE [limited |-> FALSE, record |-> rate_limit_data,
                   store |-> Delete(st, RATE_LIMITS, user_id),
                   trace |-> <<"store.search rate_limits", "store.delete rate_limits">>]
    ELSE [limited |-> FALSE, record |-> [expires_at |-> 0], store |-> st,
          trace |-> <<"store.search rate_limits">>]

\* faulty variant of rate_limit_check: an expired record is left in the store
rate_limit_check_keeps_stale(st, user_id, items, t) ==
    IF Len(items) > 0
    THEN LET rate_limit_data == items[1].value
         IN  IF t < rate_limit_data.expires_at
             THEN [limited |-> TRUE, record |-> rate_limit_data, store |-> st,
                   trace |-> <<"store.search rate_limits">>]
             ELSE [limited |-> FALSE, record |-> rate_limit_data, store |-> st,
                   trace |-> <<"store.search rate_limits">>]
    ELSE [limited |-> FALSE, record |-> [expires_at |-> 0], store |-> st,
          trace |-> <<"store.search rate_limits">>]

rate_limit_check(st, user_id, items, t) ==
    IF Len(items) > 0
    THEN LET rate_limit_data == items[1].value
         IN  IF t < rate_limit_data.expires_at
             THEN [limited |-> TRUE, record |-> rate_limit_data, store |-> st,
                   trace |-> <<"store.search rate_limits">>]
             ELSE [limited |-> FALSE, record |-> rate_limit_data,
                   store |-> Delete(st, RATE_LIMITS, user_id),
                   trace |-> <<"store.search rate_limits", "store.delete rate_limits">>]
    ELSE [limited |-> FALSE, record |-> [expires_at |-> 0], store |-> st,
          trace |-> <<"store.search rate_limits">>]

\* the body of the 429 response of chat (lines 278-290)
RateLimitedBody(record, t) ==
    LET time_remaining == (record.expires_at - t) * SecondsPerHour
    IN  [error |-> [hours |-> time_remaining \div SecondsPerHour,
                    minutes |-> (time_remaining % SecondsPerHour) \div SecondsPerMinute],
         status |-> "error",
         rate_limited |-> TRUE,
         expires_at |-> record.expires_at,
         conversation_length |-> Get(record, "conversation_length", DefaultConversationLength)]

\* validation of a chat request (lines 207-250): the error, or "ok"
Validate(user_id, message, session_id, model_type) ==
    IF Falsy(user_id) THEN "user_id is required"
    ELSE IF Falsy(message) THEN "message is required"
    ELSE IF Falsy(session_id) THEN "session_id is required"
    ELSE IF model_type \notin {GPT, CLAUDE} THEN "model must be 'gpt' or 'claude'"
    ELSE IF len(message) > MaxMessageLen THEN "Message too long (max 10,000 characters)"
    ELSE "ok"

ErrorBody(msg) == [error |-> msg, status |-> "error"]

\* the JSON value null given for "model" (a one-element sequence, as the model
\* strings are sequences)
Null == <<"<null>">>

\* the framework's response to an exception no handler code catches
UnhandledBody == [detail |-> "Internal Server Error"]

\* the body of the generic 500 response of chat (lines 370-376)
ChatErrorBody(e) ==
    [error |-> "An error occurred during chat", detail |-> e,
     status |-> "error", rate_limited |-> FALSE]

\* the record of a handler run
Call(op, data, env, status, body, trace) ==
    [op |-> op, request |-> data, env |-> env,
     status |-> status, body |-> body, trace |-> trace]

(***************************************************************************)
(* chat_endpoint                                                           *)
(***************************************************************************)
\* what the environment did to a call: the store failed inside
\* get_stored_context, and the outcome of the model backend
NoEnv == [ctxFails |-> FALSE, model |-> "not called"]

NoChange == UNCHANGED <<store, threads, uuids>>

\* the rate-limited exit (lines 277-290)
ChatRateLimited(data, chk) ==
    /\ last' = Call("chat", data, NoEnv, 429, RateLimitedBody(chk.record, now), chk.trace)
    /\ store' = chk.store
    /\ UNCHANGED <<threads, uuids>>

\* the model backend fails inside compiled_graph.invoke (line 319): the
\* checkpointer has saved the thread with the input applied before the
\* node ran, and the exception reaches the except clause (lines 368-378)
ChatModelFails(data, env, chk, session_id, input, trace) ==
    /\ threads' = [threads EXCEPT ![session_id] = input]
    /\ store' = chk.store
    /\ last' = Call("chat", data, env, 500, ChatErrorBody(env.model), trace)
    /\ UNCHANGED uuids

\* store.put of the current message (lines 322-330); the timestamp, which no
\* handler reads back, is not kept
\* faulty variant of PutContext: the item is stored under one key per user
PutContext_same_key(st, user_id, key, message, session_id) ==
    Put(st, <<user_id>>, "item", [data |-> message, session_id |-> session_id])

PutContext(st, user_id, key, message, session_id) ==
    Put(st, <<user_id>>, key, [data |-> message, session_id |-> session_id])

\* the rate limit applied after a turn (lines 338-351) at time t
\* faulty variant of ApplyRateLimit: the limit is applied only by the turn
\* that takes the thread past the threshold
ApplyRateLimit_on_crossing(st, user_id, conversation_length, t) ==
    IF /\ conversation_length > RateLimitThreshold
       /\ conversation_length <= RateLimitThreshold + 2
    THEN Put(st, RATE_LIMITS, user_id,
             [user_id |-> user_id,
              conversation_length |-> conversation_length,
              expires_at |-> t + RateLimitHours,
              set_at |-> t])
    ELSE st

\* faulty variant of ApplyRateLimit: every record is stored under one key
ApplyRateLimit_one_key(st, user_id, conversation_length, t) ==
    IF conversation_length > RateLimitThreshold
    THEN Put(st, RATE_LIMITS, "limit",
             [user_id |-> user_id,
              conversation_length |-> conversation_length,
              expires_at |-> t + RateLimitHours,
              set_at |-> t])
    ELSE st

\* faulty variant of ApplyRateLimit: the limit is applied at the threshold itself
ApplyRateLimit_at_threshold(st, user_id, conversation_length, t) ==
    IF conversation_length >= RateLimitThreshold
    THEN Put(st, RATE_LIMITS, user_id,
             [user_id |-> user_id,
              conversation_length |-> conversation_length,
              expires_at |-> t + RateLimitHours,
              set_at |-> t])
    ELSE st

ApplyRateLimit(st, user_id, conversation_length, t) ==
    IF conversation_length > RateLimitThreshold
    THEN Put(st, RATE_LIMITS, user_id,
             [user_id |-> user_id,
              conversation_length |-> conversation_length,
              expires_at |-> t + RateLimitHours,
              set_at |-> t])
    ELSE st

\* the body of the 200 response (lines 332-364) at time t
ChatBody(result, user_id, session_id, model_type, relevant_context, t) ==
    LET last_message == result[Len(result)]
        conversation_length == Len(result)
        rate_limited == conversation_length > RateLimitThreshold
    IN  [message |-> last_message.content,
         session_id |-> session_id,
         user_id |-> user_id,
         model |-> model_type,
         conversation_length |-> conversation_length,
         context_items_found |-> Len(relevant_context),
         rate_limited |-> rate_limited,
         status |-> "success",
         expires_at |-> IF rate_limited THEN t + RateLimitHours ELSE NoExpiry]

\* lines 321-366 after the graph returned `result`
ChatSucceeds(data, env, chk, user_id, message, session_id, model_type, relevant_context, result, trace) ==
    LET body == ChatBody(result, user_id, session_id, model_type, relevant_context, now)
    IN  /\ threads' = [threads EXCEPT ![session_id] = result]
        /\ store' = ApplyRateLimit(
                        PutContext(chk.store, user_id, uuid4(uuids), message, session_id),
                        user_id, Len(result), now)
        /\ uuids' = uuids + 1
        /\ last' = Call("chat", data, env, 200, body,
                        trace \o <<"store.put context">>
                              \o (IF body.rate_limited
                                  THEN <<"store.put rate_limits">> ELSE <<>>))

\* enhanced_message (lines 299-307)
Enhance(relevant_context, message) ==
    IF Len(relevant_context) > 0
    THEN WithContext(relevant_context, message)
    ELSE Plain(message)

\* faulty variant of ChatTurn: the graph starts from the new message alone
\* instead of the checkpointed thread
ChatTurn_replacing(data, chk, user_id, message, session_id, model_type, envs) ==
    \E ctxFails \in {e.ctxFails : e \in envs} :
      \E relevant_context \in
              get_stored_context(chk.store, user_id, ContextLimit, ctxFails) :
        \E env \in {e \in envs : e.ctxFails = ctxFails} :
            LET input == <<HumanMessage(Enhance(relevant_context, message))>>
                node == route_model(model_type)
                trace == chk.trace
                         \o <<"get_stored_context", "checkpointer.put input", node>>
            IN  IF env.model = "ok"
                THEN ChatSucceeds(data, env, chk, user_id, message, session_id,
                                  model_type, relevant_context,
                                  input \o <<ModelReply(node)>>,
                                  trace \o <<"checkpointer.put">>)
                ELSE ChatModelFails(data, env, chk, session_id, input, trace)

\* lines 296-319: context retrieval, prompt, graph run
ChatTurn(data, chk, user_id, message, session_id, model_type, envs) ==
    \E ctxFails \in {e.ctxFails : e \in envs} :
      \E relevant_context \in
              get_stored_context(chk.store, user_id, ContextLimit, ctxFails) :
        \E env \in {e \in envs : e.ctxFails = ctxFails} :
            LET input == threads[session_id]
                         \o <<HumanMessage(Enhance(relevant_context, message))>>
                node == route_model(model_type)
                trace == chk.trace
                         \o <<"get_stored_context", "checkpointer.put input", node>>
            IN  IF env.model = "ok"
                THEN ChatSucceeds(data, env, chk, user_id, message, session_id,
                                  model_type, relevant_context,
                                  input \o <<ModelReply(node)>>,
                                  trace \o <<"checkpointer.put">>)
                ELSE ChatModelFails(data, env, chk, session_id, input, trace)

\* the handler; db: SUPABASE_DB_URL is set; envs: what the environment may do
chat_endpoint(data, db, envs) ==
    IF Get(data, "model", GPT) = Null
    THEN \* line 200: None has no .lower(); the AttributeError is raised before
         \* the validation and outside the try block, so the framework answers
         /\ last' = Call("chat", data, NoEnv, 500, UnhandledBody, <<>>)
         /\ NoChange
    ELSE
    LET message == Get(data, "message", None)
        model_type == lower(Get(data, "model", GPT))
        session_id == Get(data, "session_id", None)
        user_id == Get(data, "user_id", None)
        invalid == Validate(user_id, message, session_id, model_type)
    IN  IF invalid # "ok"
        THEN /\ last' = Call("chat", data, NoEnv, 400, ErrorBody(invalid), <<>>)
             /\ NoChange
        ELSE IF ~db
        THEN /\ last' = Call("chat", data, NoEnv, 500,
                             ErrorBody("Database configuration error"), <<>>)
             /\ NoChange
        ELSE \E items \in Search(store, RATE_LIMITS, [user_id |-> user_id],
                                 SearchDefaultLimit) :
                LET chk == rate_limit_check(store, user_id, items, now)
                IN  IF chk.limited
                    THEN ChatRateLimited(data, chk)
                    ELSE ChatTurn(data, chk, user_id, message, session_id,
                                  model_type, envs)

(***************************************************************************)
(* get_history_endpoint                                                    *)
(***************************************************************************)
\* lines 440-446
\* faulty variant of Role: the two speakers are exchanged
Role_exchanged(msg) ==
    CASE msg.type = "human" -> "assistant"
      [] msg.type = "ai" -> "user"
      [] msg.type = "system" -> "system"

Role(msg) ==
    CASE msg.type = "human" -> "user"
      [] msg.type = "ai" -> "assistant"
      [] msg.type = "system" -> "system"

get_history_endpoint(data, db) ==
    LET session_id == Get(data, "session_id", None)
    IN  /\ NoChange
        /\ IF Falsy(session_id)
           THEN last' = Call("get_history", data, NoEnv, 400,
                             ErrorBody("session_id is required"), <<>>)
           ELSE IF ~db
           THEN last' = Call("get_history", data, NoEnv, 500,
                             ErrorBody("Database configuration error"), <<>>)
           ELSE LET all_messages == threads[session_id]
                    formatted_messages ==
                        [i \in 1..Len(all_messages) |->
                            [role |-> Role(all_messages[i]),
                             content |-> all_messages[i].content]]
                IN  last' = Call("get_history", data, NoEnv, 200,
                                 [messages |-> formatted_messages,
                                  session_id |-> session_id,
                                  conversation_length |-> Len(formatted_messages),
                                  status |-> "success"],
                                 <<"checkpointer.list">>)

(***************************************************************************)
(* clear_history_endpoint                                                  *)
(***************************************************************************)
\* checkpointer.delete_thread(thread_id)
\* faulty variant of delete_thread: the first message of the thread is kept
delete_thread_but_first(th, thread_id) ==
    [th EXCEPT ![thread_id] = IF @ = <<>> THEN <<>> ELSE <<Head(@)>>]

\* faulty variant of delete_thread: the thread is kept
delete_thread_noop(th, thread_id) == th

delete_thread(th, thread_id) == [th EXCEPT ![thread_id] = <<>>]

\* the refusal of lines 515-522
ClearRefusedBody(record) ==
    [error |-> "Cannot clear history while rate limited.",
     status |-> "error",
     rate_limited |-> TRUE,
     expires_at |-> record.expires_at]

\* user: what verify_token returned for the caller
clear_history_endpoint(data, user, db) ==
    LET session_id == Get(data, "session_id", None)
        user_id == user.id
        request == [data |-> data, user |-> user]
    IN  IF Falsy(session_id)
        THEN /\ last' = Call("clear_history", request, NoEnv, 400,
                             ErrorBody("session_id is required"), <<>>)
             /\ NoChange
        ELSE IF ~db
        THEN /\ last' = Call("clear_history", request, NoEnv, 500,
                             ErrorBody("Database configuration error"), <<>>)
             /\ NoChange
        ELSE \E items \in Search(store, RATE_LIMITS, [user_id |-> user_id],
                                 SearchDefaultLimit) :
                LET chk == rate_limit_check(store, user_id, items, now)
                IN  IF chk.limited
                    THEN /\ last' = Call("clear_history", request, NoEnv, 429,
                                         ClearRefusedBody(chk.record), chk.trace)
                         /\ store' = chk.store
                         /\ UNCHANGED <<threads, uuids>>
                    ELSE /\ store' = chk.store
                         /\ threads' = delete_thread(threads, session_id)
                         /\ last' = Call("clear_history", request, NoEnv, 200,
                                         [message |-> "Session history cleared",
                                          session_id |-> session_id,
                                          status |-> "success",
                                          rate_limited |-> FALSE],
                                         chk.trace \o <<"checkpointer.delete_thread">>)
                         /\ UNCHANGED uuids

(***************************************************************************)
(* clear_user_data_endpoint                                                *)
(***************************************************************************)
RECURSIVE DeleteAll(_, _, _)
\* the loop of lines 595-597 over the items a search returned
DeleteAll(st, ns, items) ==
    IF items = {} THEN st
    ELSE LET item == CHOOSE i \in items : TRUE
         IN  DeleteAll(Delete(st, ns, item.key), ns, items \ {item})

\* the search of line 591 is taken as the set of items it returns: the loop
\* deletes them all, in whatever order
clear_user_data_endpoint(data, db) ==
    LET user_id == Get(data, "user_id", None)
    IN  IF Falsy(user_id)
        THEN /\ last' = Call("clear_user_data", data, NoEnv, 400,
                             ErrorBody("user_id is required"), <<>>)
             /\ NoChange
        ELSE IF ~db
        THEN /\ last' = Call("clear_user_data", data, NoEnv, 500,
                             ErrorBody("Database configuration error"), <<>>)
             /\ NoChange
        ELSE \E items \in SearchSets(store, <<user_id>>, NoFilter, SearchDefaultLimit) :
                LET deleted_count == Cardinality(items)
                IN  /\ store' = DeleteAll(store, <<user_id>>, items)
                    /\ last' = Call("clear_user_data", data, NoEnv, 200,
                                    [message |-> deleted_count,
                                     user_id |-> user_id,
                                     deleted_count |-> deleted_count,
                                     status |-> "success"],
                                    <<"store.search context">>
                                    \o [i \in 1..deleted_count |-> "store.delete context"])
                    /\ UNCHANGED <<threads, uuids>>

(***************************************************************************)
(* Specification of the handlers: one long session, a main user and a      *)
(* second user whose id is the name of the rate-limit namespace.           *)
(***************************************************************************)
MainUser == "u1"
UserIds == {MainUser, "rate_limits"}
LongSession == "s1"
SessionIds == {LongSession, "s2"}

ChatRequests ==
    [user_id : UserIds, message : {"hi"}, session_id : SessionIds]
    \cup [user_id : UserIds, message : {"hi"}, session_id : SessionIds, model : {CLAUDE}]

\* verify_token's result for the callers of the model
Account(id) == [id |-> id, email |-> id]
Callers == {Account(MainUser)}

\* what the environment may do to a turn
Envs == [ctxFails : BOOLEAN, model : ModelOutcomes]
NoFailure == {[ctxFails |-> FALSE, model |-> "ok"]}

\* no handler has run since the clock last moved
NoCall == [op |-> "none", request |-> <<>>, env |-> NoEnv,
           status |-> 0, body |-> <<>>, trace |-> <<>>]

IdleGraph == [model_type |-> GPT, node |-> "idle", ran |-> <<>>]

\* the workers that can each run one chat call at a time
Workers == {"w1", "w2"}

\* a worker that runs no call
Idle == [pc |-> "idle", request |-> <<>>, relevant_context |-> <<>>,
         messages |-> <<>>, status |-> 0]

\* no call is running
NoCalls == [base |-> [store |-> {}, threads |-> <<>>, uuids |-> 0, now |-> 0],
            of |-> [w \in Workers |-> Idle]]

Init ==
    /\ store = {}
    /\ threads = [s \in SessionIds |-> <<>>]
    /\ now = 0
    /\ uuids = 0
    /\ faults = 0
    /\ clears = 0
    /\ issued = [u \in UserIds |-> 0]
    /\ turns = [s \in SessionIds |-> 0]
    /\ last = NoCall
    /\ graph = IdleGraph
    /\ calls = NoCalls

\* the context items of a user
ContextItems(st, user_id) ==
    {i \in st : i.namespace = <<user_id>> /\ "data" \in DOMAIN i.value}

\* the failures the environment injected into the call just made
Injected(env) == (IF env.ctxFails THEN 1 ELSE 0)
                 + (IF env.model \in ModelErrors THEN 1 ELSE 0)

\* the bookkeeping of the bounds for the handler step just taken
Counted ==
    /\ faults' = faults + Injected(last'.env)
    /\ clears' = clears + (IF /\ last'.op \in {"clear_history", "clear_user_data"}
                              /\ (store' # store \/ threads' # threads)
                           THEN 1 ELSE 0)
    /\ issued' = IF last'.op = "chat" /\ last'.status = 200 /\ last'.body.rate_limited
                 THEN [issued EXCEPT ![last'.body.user_id] = last'.body.expires_at]
                 ELSE issued
    /\ turns' = IF last'.op = "chat" /\ last'.status = 200
                THEN [turns EXCEPT ![last'.body.session_id] = @ + 1]
                ELSE IF last'.op = "clear_history" /\ last'.status = 200
                THEN [turns EXCEPT ![last'.body.session_id] = 0]
                ELSE turns
    /\ UNCHANGED <<now, graph, calls>>

\* the longest thread the model lets a session grow to
ThreadBound(session_id) ==
    IF session_id = LongSession THEN MaxThreadLen ELSE MaxOtherThreadLen

\* the most context items the model lets a user hold
ItemBound(user_id) == IF user_id = MainUser THEN MaxUuids ELSE MaxOtherItems

\* the step just taken stays within the bounds
Bounded ==
    /\ uuids' <= MaxUuids
    /\ faults' <= MaxFaults
    /\ clears' <= MaxClears
    /\ \A s \in SessionIds : Len(threads'[s]) <= ThreadBound(s)
    /\ \A u \in UserIds : Cardinality(ContextItems(store', u)) <= ItemBound(u)

Chat ==
    /\ \E data \in ChatRequests : chat_endpoint(data, TRUE, Envs)
    /\ Counted
    /\ Bounded

GetHistory ==
    /\ \E s \in SessionIds : get_history_endpoint([session_id |-> s], TRUE)
    /\ Counted

ClearHistory ==
    /\ \E s \in SessionIds, user \in Callers :
          clear_history_endpoint([session_id |-> s], user, TRUE)
    /\ Counted
    /\ Bounded

ClearUserData ==
    /\ \E u \in UserIds : clear_user_data_endpoint([user_id |-> u], TRUE)
    /\ Counted
    /\ Bounded

\* the clock moves on
Tick ==
    /\ now + RateLimitHours <= MaxTime
    /\ now' = now + RateLimitHours
    /\ last' = NoCall
    /\ UNCHANGED <<store, threads, uuids, faults, clears, issued, turns, graph, calls>>

Next == Chat \/ ClearHistory \/ ClearUserData \/ Tick

Spec == Init /\ [][Next]_vars

(***************************************************************************)
(* Specification of the history operations: chat turns on short threads,   *)
(* get_history and clear_history in any order.                             *)
(***************************************************************************)
HistoryBounded ==
    /\ uuids' <= MaxHistoryLen
    /\ faults' <= MaxFaults
    /\ clears' <= MaxHistoryClears
    /\ \A s \in SessionIds : Len(threads'[s]) <= MaxHistoryLen

HistoryChat ==
    /\ \E data \in {r \in ChatRequests : r.user_id = MainUser} :
          chat_endpoint(data, TRUE, Envs)
    /\ Counted
    /\ HistoryBounded

HistoryClear ==
    /\ \E s \in SessionIds, user \in Callers :
          clear_history_endpoint([session_id |-> s], user, TRUE)
    /\ Counted
    /\ HistoryBounded

SpecHistory == Init /\ [][HistoryChat \/ GetHistory \/ HistoryClear]_vars

(***************************************************************************)
(* Specification of the handlers when every model call answers: chat turns *)
(* one after the other, and the other operations in any order.             *)
(***************************************************************************)
AnsweredBounded ==
    /\ uuids' <= MaxAnsweredTurns
    /\ clears' <= MaxAnsweredClears
    /\ Len(threads'["s2"]) <= MaxAnsweredOtherLen
    /\ \A u \in UserIds \ {MainUser} : Cardinality(ContextItems(store', u)) <= MaxOtherItems

AnsweredChat ==
    /\ \E data \in ChatRequests : chat_endpoint(data, TRUE, NoFailure)
    /\ Counted
    /\ AnsweredBounded

AnsweredClearHistory ==
    /\ \E s \in SessionIds, user \in Callers :
          clear_history_endpoint([session_id |-> s], user, TRUE)
    /\ Counted
    /\ AnsweredBounded

AnsweredClearUserData ==
    /\ \E u \in UserIds : clear_user_data_endpoint([user_id |-> u], TRUE)
    /\ Counted
    /\ AnsweredBounded

SpecAnswered ==
    Init /\ [][AnsweredChat \/ AnsweredClearHistory \/ AnsweredClearUserData \/ Tick]_vars

(***************************************************************************)
(* Specification of the context retrieval across users: every user sends   *)
(* a message of their own, on any session.                                 *)
(***************************************************************************)
IsolationUsers == {MainUser, "u2", "rate_limits"}

MessageOf(user_id) ==
    CASE user_id = MainUser -> "from u1"
      [] user_id = "u2" -> "from u2"
      [] OTHER -> "from rate_limits"

IsolationRequests ==
    {[user_id |-> u, message |-> MessageOf(u), session_id |-> s] :
        u \in IsolationUsers, s \in SessionIds}

IsolationChat ==
    /\ \E data \in IsolationRequests : chat_endpoint(data, TRUE, Envs)
    /\ Counted
    /\ uuids' <= MaxIsolationTurns
    /\ faults' <= MaxFaults

SpecIsolation == Init /\ [][IsolationChat]_vars

(***************************************************************************)
(* Specification of one authenticated caller: every call carries the token *)
(* of the main user; the user_id of a chat request body is the caller's id *)
(* or another one, as chat_endpoint takes it from the body (line 202) and  *)
(* does not use what verify_token returned.                                *)
(***************************************************************************)
CallerRequests ==
    {[user_id |-> u, message |-> "hi", session_id |-> LongSession] : u \in {MainUser, "u2"}}

CallerInit ==
    /\ store = {}
    /\ threads = [s \in SessionIds |-> <<>>]
    /\ now = 0
    /\ uuids = 0
    /\ faults = 0
    /\ clears = 0
    /\ issued = [u \in {MainUser, "u2"} |-> 0]
    /\ turns = [s \in SessionIds |-> 0]
    /\ last = NoCall
    /\ graph = IdleGraph
    /\ calls = NoCalls

CallerChat ==
    /\ \E data \in CallerRequests : chat_endpoint(data, TRUE, NoFailure)
    /\ Counted
    /\ uuids' <= MaxCallerTurns

CallerClearHistory ==
    /\ \E s \in SessionIds :
          clear_history_endpoint([session_id |-> s], Account(MainUser), TRUE)
    /\ Counted
    /\ clears' <= MaxCallerClears

SpecCaller == CallerInit /\ [][CallerChat \/ CallerClearHistory \/ Tick]_vars

(***************************************************************************)
(* Specification of clear_user_data: one user gathers context items over   *)
(* two sessions, a second user holds a few, and either clears their data.  *)
(***************************************************************************)
OtherUser == "u2"

ClearDataRequests ==
    {[user_id |-> MainUser, message |-> "hi", session_id |-> s] : s \in SessionIds}
    \cup {[user_id |-> OtherUser, message |-> "hi", session_id |-> "s3"]}

ClearDataInit ==
    /\ store = {}
    /\ threads = [s \in SessionIds \cup {"s3"} |-> <<>>]
    /\ now = 0
    /\ uuids = 0
    /\ faults = 0
    /\ clears = 0
    /\ issued = [u \in UserIds \cup {OtherUser} |-> 0]
    /\ turns = [s \in SessionIds \cup {"s3"} |-> 0]
    /\ last = NoCall
    /\ graph = IdleGraph
    /\ calls = NoCalls

\* the main user moves on to the second session when the first holds
\* RateLimitThreshold messages
InTurn(data) ==
    (data.user_id = MainUser /\ data.session_id # LongSession)
        => Len(threads[LongSession]) >= RateLimitThreshold

ClearDataChat ==
    /\ \E data \in ClearDataRequests : InTurn(data) /\ chat_endpoint(data, TRUE, NoFailure)
    /\ Counted
    /\ uuids' <= MaxClearDataTurns
    /\ Cardinality(ContextItems(store', OtherUser)) <= MaxOtherItems

ClearDataClear ==
    /\ \E u \in {MainUser, OtherUser} : clear_user_data_endpoint([user_id |-> u], TRUE)
    /\ Counted
    /\ clears' <= MaxClears

SpecClearData == ClearDataInit /\ [][ClearDataChat \/ ClearDataClear]_vars

(***************************************************************************)
(* Specification of chat calls that run at the same time: each worker runs *)
(* chat_endpoint one store or graph operation at a time, and the clock     *)
(* moves in hours.  The requests are valid and nothing fails.              *)
(***************************************************************************)
ConcurrentRequests ==
    {[user_id |-> MainUser, message |-> "hi", session_id |-> LongSession],
     [user_id |-> "rate_limits", message |-> "hi", session_id |-> "s2"]}

Running(w) == calls.of[w].pc \notin {"idle", "done"}

\* no call is running: the next call begins a new group of calls
Quiet == \A w \in Workers : ~Running(w)

\* the stores and the clock as they are now
Snapshot == [store |-> store, threads |-> threads, uuids |-> uuids, now |-> now]

\* lines 199-261: the request is read and found valid
CallStart(w) ==
    /\ \E data \in ConcurrentRequests :
          LET c == [Idle EXCEPT !.pc = "check", !.request = data]
          IN  IF Quiet
              THEN /\ w = "w1"
                   /\ calls' = [base |-> Snapshot,
                                of |-> [v \in Workers |-> IF v = w THEN c ELSE Idle]]
              ELSE /\ calls.of[w].pc = "idle"
                   /\ Len(threads[LongSession]) >= ConcurrentFrom
                   /\ calls' = [calls EXCEPT !.of[w] = c]
    /\ UNCHANGED <<store, threads, now, uuids, faults, clears, issued, turns, last, graph>>

\* faulty variant of CallCheck: the record of one user is looked up for
\* every caller
CallCheck_one_user(w) ==
    LET c == calls.of[w]
        user_id == c.request.user_id
    IN  /\ c.pc = "check"
        /\ \E items \in Search(store, RATE_LIMITS, [user_id |-> MainUser],
                                SearchDefaultLimit) :
              LET chk == rate_limit_check(store, user_id, items, now)
              IN  /\ store' = chk.store
                  /\ calls' = [calls EXCEPT !.of[w] =
                                  IF chk.limited
                                  THEN [c EXCEPT !.pc = "done", !.status = 429]
                                  ELSE [c EXCEPT !.pc = "retrieve"]]
        /\ UNCHANGED <<threads, now, uuids, faults, clears, issued, turns, last, graph>>

\* lines 271-293: the rate limit check
CallCheck(w) ==
    LET c == calls.of[w]
        user_id == c.request.user_id
    IN  /\ c.pc = "check"
        /\ \E items \in Search(store, RATE_LIMITS, [user_id |-> user_id],
                                SearchDefaultLimit) :
              LET chk == rate_limit_check(store, user_id, items, now)
              IN  /\ store' = chk.store
                  /\ calls' = [calls EXCEPT !.of[w] =
                                  IF chk.limited
                                  THEN [c EXCEPT !.pc = "done", !.status = 429]
                                  ELSE [c EXCEPT !.pc = "retrieve"]]
        /\ UNCHANGED <<threads, now, uuids, faults, clears, issued, turns, last, graph>>

\* line 296: the context retrieval
CallRetrieve(w) ==
    LET c == calls.of[w]
    IN  /\ c.pc = "retrieve"
        /\ \E relevant_context \in
                 get_stored_context(store, c.request.user_id, ContextLimit, FALSE) :
              calls' = [calls EXCEPT !.of[w] =
                          [c EXCEPT !.pc = "invoke",
                                    !.relevant_context = relevant_context]]
        /\ UNCHANGED <<store, threads, now, uuids, faults, clears, issued, turns, last, graph>>

\* lines 309-319: the graph loads the thread of the session and checkpoints
\* it with the new human message
CallInvoke(w) ==
    LET c == calls.of[w]
        session_id == c.request.session_id
        input == threads[session_id]
                 \o <<HumanMessage(Enhance(c.relevant_context, c.request.message))>>
    IN  /\ c.pc = "invoke"
        /\ threads' = [threads EXCEPT ![session_id] = input]
        /\ calls' = [calls EXCEPT !.of[w] = [c EXCEPT !.pc = "model", !.messages = input]]
        /\ UNCHANGED <<store, now, uuids, faults, clears, issued, turns, last, graph>>

\* the model node answers and the graph checkpoints its state
CallModel(w) ==
    LET c == calls.of[w]
        node == route_model(lower(Get(c.request, "model", GPT)))
        result == c.messages \o <<ModelReply(node)>>
    IN  /\ c.pc = "model"
        /\ threads' = [threads EXCEPT ![c.request.session_id] = result]
        /\ calls' = [calls EXCEPT !.of[w] = [c EXCEPT !.pc = "put", !.messages = result]]
        /\ UNCHANGED <<store, now, uuids, faults, clears, issued, turns, last, graph>>

\* lines 322-330: the context item
CallPut(w) ==
    LET c == calls.of[w]
    IN  /\ c.pc = "put"
        /\ store' = PutContext(store, c.request.user_id, uuid4(uuids),
                               c.request.message, c.request.session_id)
        /\ uuids' = uuids + 1
        /\ calls' = [calls EXCEPT !.of[w] = [c EXCEPT !.pc = "limit"]]
        /\ UNCHANGED <<threads, now, faults, clears, issued, turns, last, graph>>

\* lines 333-366: the rate limit record and the response
CallLimit(w) ==
    LET c == calls.of[w]
    IN  /\ c.pc = "limit"
        /\ store' = ApplyRateLimit(store, c.request.user_id, Len(c.messages), now)
        /\ calls' = [calls EXCEPT !.of[w] = [c EXCEPT !.pc = "done", !.status = 200]]
        /\ UNCHANGED <<threads, now, uuids, faults, clears, issued, turns, last, graph>>

\* the clock moves on by an hour
ConcurrentTick ==
    /\ now < MaxConcurrentTime
    /\ now' = now + 1
    /\ UNCHANGED <<store, threads, uuids, faults, clears, issued, turns, last, graph, calls>>

ConcurrentBounded ==
    /\ uuids' <= MaxConcurrentTurns
    /\ Len(threads'[LongSession]) <= MaxThreadLen
    /\ \A s \in SessionIds \ {LongSession} : Len(threads'[s]) <= MaxConcurrentOtherLen

Start == \E w \in Workers : CallStart(w) /\ ConcurrentBounded
Check == \E w \in Workers : CallCheck(w) /\ ConcurrentBounded
Retrieve == \E w \in Workers : CallRetrieve(w) /\ ConcurrentBounded
Invoke == \E w \in Workers : CallInvoke(w) /\ ConcurrentBounded
Model == \E w \in Workers : CallModel(w) /\ ConcurrentBounded
PutItem == \E w \in Workers : CallPut(w) /\ ConcurrentBounded
Limit == \E w \in Workers : CallLimit(w) /\ ConcurrentBounded

ConcurrentNext ==
    \/ Start \/ Check \/ Retrieve \/ Invoke \/ Model \/ PutItem \/ Limit
    \/ ConcurrentTick

SpecConcurrent == Init /\ [][ConcurrentNext]_vars

(***************************************************************************)
(* One chat call run on its own, as a function of the stores: the stores   *)
(* it may leave when its check runs at time tc and its writes at time tp.  *)
(***************************************************************************)
Stores(st, th, n) == [store |-> st, threads |-> th, uuids |-> n]

RunChat(S, data, tc, tp) ==
    LET user_id == data.user_id
        session_id == data.session_id
        node == route_model(lower(Get(data, "model", GPT)))
    IN  UNION {
          LET chk == rate_limit_check(S.store, user_id, items, tc)
          IN  IF chk.limited THEN {S}
              ELSE {LET result == S.threads[session_id]
                                  \o <<HumanMessage(Enhance(relevant_context, data.message)),
                                       ModelReply(node)>>
                    IN  Stores(ApplyRateLimit(
                                   PutContext(chk.store, user_id, uuid4(S.uuids),
                                              data.message, session_id),
                                   user_id, Len(result), tp),
                               [S.threads EXCEPT ![session_id] = result],
                               S.uuids + 1) :
                    relevant_context \in
                        get_stored_context(chk.store, user_id, ContextLimit, FALSE)} :
          items \in Search(S.store, RATE_LIMITS, [user_id |-> user_id],
                           SearchDefaultLimit)}

\* the stores left by call a followed by call b, between the times lo and hi
OneAfterTheOther(S, a, b, lo, hi) ==
    UNION {UNION {RunChat(S1, b, t[3], t[4]) : S1 \in RunChat(S, a, t[1], t[2])} :
           t \in {q \in [1..4 -> lo..hi] : q[1] <= q[2] /\ q[2] <= q[3] /\ q[3] <= q[4]}}

(***************************************************************************)
(* Specification of the request validation: chat requests of every shape,  *)
(* with SUPABASE_DB_URL set or not, and at most MaxValidatedTurns turns.   *)
(***************************************************************************)
Absent == "<absent>"

UpperChar(c) ==
    CASE c = "a" -> "A" [] c = "c" -> "C" [] c = "d" -> "D" [] c = "e" -> "E"
      [] c = "g" -> "G" [] c = "l" -> "L" [] c = "m" -> "M" [] c = "p" -> "P"
      [] c = "t" -> "T" [] c = "u" -> "U"
      [] OTHER -> c

\* the spellings of a lower-case word in every letter case
RECURSIVE AnyCase(_)
AnyCase(word) ==
    IF word = <<>> THEN {<<>>}
    ELSE {<<c>> \o w : c \in {Head(word), UpperChar(Head(word))},
                       w \in AnyCase(Tail(word))}

ClaudeSpellings == AnyCase(CLAUDE)
GptSpellings == AnyCase(GPT)

AnyModels ==
    {<<Absent>>, Null, <<>>, GPT, CLAUDE,
     <<"G", "P", "T">>, <<"g", "P", "t">>,
     <<"C", "l", "a", "u", "d", "e">>, <<"c", "L", "A", "U", "D", "E">>,
     <<"g", "p", "t", "4">>, <<"c", "l", "a", "u", "d">>, <<"l", "l", "a", "m", "a">>}

\* the request body with the given fields, those that are Absent left out
Body(u, m, s, t) ==
    LET full == [user_id |-> u, message |-> m, session_id |-> s, model |-> t]
        keys == {k \in {"user_id", "message", "session_id"} : full[k] # Absent}
                \cup (IF t = <<Absent>> THEN {} ELSE {"model"})
    IN  [k \in keys |-> full[k]]

AnyChatRequests ==
    {Body(u, m, s, t) : u \in {Absent, "", MainUser},
                        m \in {Absent, EmptyText, "hi", MaxText, LongText},
                        s \in {Absent, "", LongSession},
                        t \in AnyModels}

ChatAny ==
    /\ \E data \in AnyChatRequests, db \in BOOLEAN : chat_endpoint(data, db, NoFailure)
    /\ Counted
    /\ uuids' <= MaxValidatedTurns

SpecValidation == Init /\ [][ChatAny]_vars

(***************************************************************************)
(* Specification of the chat graph run on its own (create_chat_graph):     *)
(* invoked with a model_type of any spelling.                              *)
(***************************************************************************)
END == "done"
Nodes == {"gpt_chat", "claude_chat"}

\* the path map of set_conditional_entry_point (lines 49-55)
EntryMap == [gpt_chat |-> "gpt_chat", claude_chat |-> "claude_chat"]

\* add_edge (lines 58-59)
Edge(node) == END

RouterInputs ==
    ClaudeSpellings \cup GptSpellings \cup (AnyModels \ {<<Absent>>, Null})

GraphInvoke ==
    /\ graph.node \in {"idle", END}
    /\ \E m \in RouterInputs : graph' = [model_type |-> m, node |-> "entry", ran |-> <<>>]
    /\ UNCHANGED <<store, threads, now, uuids, faults, clears, issued, turns, last, calls>>

GraphRoute ==
    /\ graph.node = "entry"
    /\ graph' = [graph EXCEPT !.node = EntryMap[route_model(graph.model_type)]]
    /\ UNCHANGED <<store, threads, now, uuids, faults, clears, issued, turns, last, calls>>

GraphRun ==
    /\ graph.node \in Nodes
    /\ graph' = [graph EXCEPT !.ran = Append(@, graph.node), !.node = Edge(graph.node)]
    /\ UNCHANGED <<store, threads, now, uuids, faults, clears, issued, turns, last, calls>>

SpecRouter == Init /\ [][GraphInvoke \/ GraphRoute \/ GraphRun]_vars

(***************************************************************************)
(* What the claims read.                                                   *)
(***************************************************************************)
\* the rate-limit records the check of a user finds
Records(st, user_id) == Matching(st, RATE_LIMITS, [user_id |-> user_id])

ActiveRecord(st, user_id, t) == \E r \in Records(st, user_id) : t < r.value.expires_at
StaleRecord(st, user_id, t) == \E r \in Records(st, user_id) : t >= r.value.expires_at

\* the accesses of a call to the context retriever and to the model router
TouchesRetrieverOrRouter(call) ==
    \E i \in 1..Len(call.trace) :
        call.trace[i] \in {"get_stored_context", "checkpointer.put input",
                           "gpt_chat", "claude_chat"}

ChatCalled == last'.op = "chat"
ChatUser == last'.request.user_id
ChatSession == last'.request.session_id

(***************************************************************************)
(* C1: a chat call of a user whose rate-limit record has now < expires_at  *)
(* is answered 429 after the rate-limit search alone: no context           *)
(* retrieval, no model node, and the threads and the whole Context Store   *)
(* (context items and rate-limit records) are left as they were.           *)
(***************************************************************************)
C1_RateLimitedShortCircuit ==
    [][(ChatCalled /\ ActiveRecord(store, ChatUser, now))
        => /\ last'.status = 429
           /\ last'.body.rate_limited
           /\ last'.trace = <<"store.search rate_limits">>
           /\ ~TouchesRetrieverOrRouter(last')
           /\ threads' = threads
           /\ store' = store]_vars

C1_Witness ==
    /\ last.op = "chat"
    /\ last.status = 429
    /\ ActiveRecord(store, last.request.user_id, now)
    /\ threads[LongSession] # <<>>

C3_LimitedUntilExpiry ==
    [][ChatCalled
        => /\ (last'.status = 200 /\ last'.body.conversation_length = 11)
                => (last'.body.rate_limited /\ last'.body.expires_at = now + 4)
           /\ (now < issued[ChatUser])
                => (last'.status = 429 /\ ~TouchesRetrieverOrRouter(last'))]_vars

(***************************************************************************)
(* C4: a chat call that finds a record of its user with now >= expires_at  *)
(* deletes it, is not answered 429, and goes on to the context retrieval   *)
(* and the model; when the model answers, the turn is persisted.           *)
(***************************************************************************)
C4_StaleRecordPurged ==
    [][(ChatCalled /\ StaleRecord(store, ChatUser, now))
        => /\ last'.status # 429
           /\ SubSeq(last'.trace, 1, 3) =
                <<"store.search rate_limits", "store.delete rate_limits",
                  "get_stored_context">>
           /\ TouchesRetrieverOrRouter(last')
           /\ ~StaleRecord(store', ChatUser, now)
           /\ (last'.env.model = "ok")
                => /\ last'.status = 200
                   /\ Len(threads'[ChatSession]) = Len(threads[ChatSession]) + 2
                   /\ Cardinality(ContextItems(store', ChatUser))
                        = Cardinality(ContextItems(store, ChatUser)) + 1]_vars

C4_Witness ==
    /\ last.op = "chat"
    /\ last.status = 200
    /\ Len(last.trace) >= 2
    /\ last.trace[2] = "store.delete rate_limits"

(***************************************************************************)
(* C5: clear_history of a caller with an active rate-limit record is       *)
(* answered 429 and leaves the threads (and the store) unchanged; with a   *)
(* stale record the record and the thread are deleted; with no record the  *)
(* thread is deleted.                                                      *)
(***************************************************************************)
C5_ClearHistoryRefusedWhileLimited ==
    [][(last'.op = "clear_history")
        => LET u == last'.request.user.id
               s == last'.request.data.session_id
           IN  IF ActiveRecord(store, u, now)
               THEN /\ last'.status = 429
                    /\ threads' = threads
                    /\ store' = store
               ELSE /\ last'.status = 200
                    /\ threads'[s] = <<>>
                    /\ \A o \in SessionIds \ {s} : threads'[o] = threads[o]
                    /\ Records(store', u) = {}
                    /\ store' = store \ Records(store, u)]_vars

C5_Witness ==
    /\ last.op = "clear_history"
    /\ last.status = 429
    /\ threads[last.request.data.session_id] # <<>>

\* a stale record and a thread deleted by one clear_history
C5_WitnessStale ==
    /\ last.op = "clear_history"
    /\ last.status = 200
    /\ last.trace = <<"store.search rate_limits", "store.delete rate_limits",
                      "checkpointer.delete_thread">>

(***************************************************************************)
(* C6: when the model backend errors, the chat turn fails and nothing is   *)
(* persisted: threads, context items and rate-limit records are as before  *)
(* the turn.                                                               *)
(***************************************************************************)
C6_FailedTurnPersistsNothing ==
    [][(ChatCalled /\ last'.env.model \in ModelErrors)
        => /\ last'.status = 500
           /\ last'.body.error = "An error occurred during chat"
           /\ threads' = threads
           /\ store' = store]_vars

(***************************************************************************)
(* C7: the response of a failed chat carries nothing derived from the      *)
(* exception: it is the same whatever the internal error was.              *)
(***************************************************************************)
C7_FailureResponseIsGeneric ==
    (last.op = "chat" /\ last.status = 500 /\ last.env.model \in ModelErrors)
    => \A e \in ModelErrors : last.body = ChatErrorBody(e)

(***************************************************************************)
(* C8: a store failure inside the context retrieval does not fail the      *)
(* turn: with the model answering, the turn succeeds, the prompt is the    *)
(* message as typed and context_items_found is 0; and no turn ever uses    *)
(* more than 3 retrieved items.                                            *)
(***************************************************************************)
C8_ContextFailureAbsorbed ==
    (last.op = "chat" /\ last.status = 200)
    => LET th == threads[last.body.session_id]
           prompt == th[Len(th) - 1]
       IN  /\ last.body.context_items_found <= 3
           /\ Len(prompt.content.context) = last.body.context_items_found
           /\ last.env.ctxFails
                => /\ last.body.context_items_found = 0
                   /\ prompt = HumanMessage(Plain(last.request.message))

C8_Witness ==
    /\ last.op = "chat"
    /\ last.status = 200
    /\ last.env.ctxFails
    /\ Cardinality(ContextItems(store, last.body.user_id)) >= 5

\* a turn whose user holds more items than the retrieval returns
C8_WitnessLimit ==
    /\ last.op = "chat"
    /\ last.status = 200
    /\ last.body.context_items_found = 3
    /\ Cardinality(ContextItems(store, last.body.user_id)) >= 5

(***************************************************************************)
(* C9: a chat request that lacks user_id, message or session_id, or whose  *)
(* message is longer than 10000 characters, or whose model is neither gpt  *)
(* nor claude in any letter case, is answered 400 without any access to    *)
(* the Context Store or the Checkpoint Store.                              *)
(***************************************************************************)
Missing(data, key) == key \notin DOMAIN data \/ data[key] = ""

Rejectable(data) ==
    \/ Missing(data, "user_id")
    \/ Missing(data, "message")
    \/ Missing(data, "session_id")
    \/ (~Missing(data, "message") /\ len(data["message"]) > 10000)
    \/ ("model" \in DOMAIN data /\ data["model"] \notin GptSpellings \cup ClaudeSpellings)

C9_InvalidRequestRejected ==
    [][(ChatCalled /\ Rejectable(last'.request))
        => /\ last'.status = 400
           /\ last'.trace = <<>>
           /\ UNCHANGED <<store, threads, uuids>>]_vars

\* What the handler does guarantee: a request to be rejected whose "model" is
\* a string or is absent is answered 400, and no request to be rejected
\* reaches a store, whatever its "model".
StringModelRequestsRejected ==
    [][(ChatCalled /\ Rejectable(last'.request))
        => /\ Get(last'.request, "model", GPT) # Null => last'.status = 400
           /\ last'.status \in {400, 500}
           /\ last'.trace = <<>>
           /\ UNCHANGED <<store, threads, uuids>>]_vars

(***************************************************************************)
(* C10: the chat graph runs claude_chat when model_type is "claude" in any *)
(* letter case and gpt_chat for every other value, then ends: exactly one  *)
(* model node runs per invocation, chosen by model_type alone.             *)
(***************************************************************************)
ExpectedNode(model_type) ==
    IF model_type \in ClaudeSpellings THEN "claude_chat" ELSE "gpt_chat"

C10_RouterBranches ==
    /\ graph.node \in Nodes
         => (graph.node = ExpectedNode(graph.model_type) /\ graph.ran = <<>>)
    /\ graph.node = END => graph.ran = <<ExpectedNode(graph.model_type)>>

C10_Witness ==
    /\ graph.node = END
    /\ graph.model_type = <<"C", "l", "A", "u", "d", "E">>
    /\ graph.ran = <<"claude_chat">>

\* an unrecognized model_type ends in the gpt branch
C10_WitnessOther ==
    /\ graph.node = END
    /\ graph.model_type = <<"l", "l", "a", "m", "a">>
    /\ graph.ran = <<"gpt_chat">>

(***************************************************************************)
(* C11: get_history returns the messages of the session's persisted thread *)
(* in order, a human message as role "user" and a model message as role    *)
(* "assistant" with the content unchanged, so a thread [user:A,            *)
(* assistant:B] comes back as exactly those two entries; a successful      *)
(* clear_history empties the thread, and get_history of a session without  *)
(* a thread answers 200 with no messages and conversation_length 0.        *)
(***************************************************************************)
RoleOf(type) == IF type = "human" THEN "user" ELSE "assistant"

C11_HistoryRoundTrip ==
    [][/\ last'.op = "get_history" =>
            LET thread == threads[last'.request.session_id]
                body == last'.body
            IN  /\ last'.status = 200
                /\ body.status = "success"
                /\ body.conversation_length = Len(thread)
                /\ Len(body.messages) = Len(thread)
                /\ \A i \in 1..Len(thread) :
                      /\ body.messages[i].role = RoleOf(thread[i].type)
                      /\ body.messages[i].content = thread[i].content
                /\ thread = <<>> => (body.messages = <<>> /\ body.conversation_length = 0)
                /\ threads' = threads
       /\ (last'.op = "clear_history" /\ last'.status = 200) =>
            threads'[last'.request.data.session_id] = <<>>]_vars

\* get_history has returned a two-message thread, user then assistant
C11_Witness ==
    /\ last.op = "get_history"
    /\ last.status = 200
    /\ Len(last.body.messages) = 2
    /\ last.body.messages[1].role = "user"
    /\ last.body.messages[2].role = "assistant"
    /\ last.body.messages[2].content = Plain("reply")

\* get_history has returned nothing for a session that was cleared
C11_WitnessCleared ==
    /\ last.op = "get_history"
    /\ last.body.messages = <<>>
    /\ clears > 0
    /\ uuids > 0

(***************************************************************************)
(* C12: the context retrieved for a chat turn of user u consists only of   *)
(* data of context items stored under u's namespace, which only chat turns *)
(* with user_id u have written; data written for another user_id is never  *)
(* retrieved.                                                              *)
(***************************************************************************)
C12_ContextIsolation ==
    [][(ChatCalled /\ last'.status = 200) =>
          LET th == threads'[ChatSession]
              ctx == th[Len(th) - 1].content.context
          IN  \A i \in 1..Len(ctx) :
                 /\ ctx[i] = MessageOf(ChatUser)
                 /\ ctx[i] \in {it.value.data : it \in ContextItems(store, ChatUser)}]_vars

\* a turn that retrieved context while the other users hold more items
C12_Witness ==
    /\ last.op = "chat"
    /\ last.status = 200
    /\ last.body.context_items_found >= 1
    /\ \E u \in IsolationUsers \ {last.body.user_id} :
          Cardinality(ContextItems(store, u)) >= 2

(***************************************************************************)
(* C13: clear_user_data(user_id) deletes every context item the user held, *)
(* reports their number as deleted_count, however many there were, and     *)
(* leaves the items of every other namespace as they were.                 *)
(***************************************************************************)
C13_ClearUserDataDeletesAll ==
    [][(last'.op = "clear_user_data" /\ last'.status = 200) =>
          LET u == last'.request.user_id
          IN  /\ ContextItems(store', u) = {}
              /\ last'.body.deleted_count = Cardinality(ContextItems(store, u))
              /\ {i \in store' : i.namespace # <<u>>}
                   = {i \in store : i.namespace # <<u>>}]_vars

\* What the handler does guarantee: the claim for a user holding at most
\* as many items as one search returns, and otherwise that many deleted.
ClearUserDataDeletesOnePage ==
    [][(last'.op = "clear_user_data" /\ last'.status = 200) =>
          LET u == last'.request.user_id
              held == Cardinality(ContextItems(store, u))
          IN  /\ last'.body.deleted_count = Min(held, SearchDefaultLimit)
              /\ Cardinality(ContextItems(store', u)) = held - last'.body.deleted_count
              /\ ContextItems(store', u) \subseteq ContextItems(store, u)
              /\ {i \in store' : i.namespace # <<u>>}
                   = {i \in store : i.namespace # <<u>>}]_vars

(***************************************************************************)
(* C14: clear_user_data, for every user_id it accepts, leaves every        *)
(* rate-limit record and every checkpoint thread as they were, and no      *)
(* context item written by chat lies in the rate-limit namespace.          *)
(***************************************************************************)
RateLimitRecords(st) ==
    {i \in st : i.namespace = RATE_LIMITS /\ "expires_at" \in DOMAIN i.value}

C14_ClearUserDataFrame ==
    [][/\ (last'.op = "clear_user_data" /\ last'.status = 200) =>
            /\ RateLimitRecords(store') = RateLimitRecords(store)
            /\ threads' = threads
       /\ \A i \in store' : "data" \in DOMAIN i.value => i.namespace # RATE_LIMITS]_vars

\* The first half on its own: the frame of clear_user_data.
ClearUserDataKeepsRateLimits ==
    [][(last'.op = "clear_user_data" /\ last'.status = 200) =>
            /\ RateLimitRecords(store') = RateLimitRecords(store)
            /\ threads' = threads]_vars

(***************************************************************************)
(* C15: in every reachable state each user_id has at most one rate-limit   *)
(* record, stored under the user_id as its key; a chat turn that writes a  *)
(* record for one user leaves the records of every other user as they      *)
(* were.                                                                   *)
(***************************************************************************)
C15_OneRecordPerUser ==
    [][/\ \A u \in UserIds :
            /\ Cardinality(Records(store', u)) <= 1
            /\ \A r \in Records(store', u) : r.key = u
       /\ ChatCalled =>
            \A v \in UserIds \ {ChatUser} : Records(store', v) = Records(store, v)]_vars

\* a turn has written a record while another user holds one
C15_Witness ==
    /\ last.op = "chat"
    /\ last.status = 200
    /\ last.body.rate_limited
    /\ \A u \in UserIds : Cardinality(Records(store, u)) = 1

(***************************************************************************)
(* C16: while a rate-limit record of a user is active (the clock is before *)
(* its expires_at), no step of any chat call, whatever calls are running   *)
(* at the same time, replaces or removes it: the record is in the store    *)
(* after the step exactly as before.                                       *)
(***************************************************************************)
C16_NoRenewalWhileLimited ==
    [][\A u \in UserIds : \A r \in Records(store, u) :
          now < r.value.expires_at => r \in store']_vars

(***************************************************************************)
(* C17: when two chat calls with different user_ids and different          *)
(* session_ids have run at the same time, under any interleaving of their  *)
(* store and graph operations, the checkpoint threads, the context items   *)
(* and the rate-limit records are those that running the two calls one     *)
(* after the other, in one of the two orders, leaves.                      *)
(***************************************************************************)
C17_ConcurrentCallsDoNotInterfere ==
    LET a == calls.of["w1"].request
        b == calls.of["w2"].request
        base == Stores(calls.base.store, calls.base.threads, calls.base.uuids)
    IN  (/\ \A w \in Workers : calls.of[w].pc = "done"
         /\ a.user_id # b.user_id
         /\ a.session_id # b.session_id)
        => Stores(store, threads, uuids)
             \in OneAfterTheOther(base, a, b, calls.base.now, now)
                 \cup OneAfterTheOther(base, b, a, calls.base.now, now)

\* two such calls have run at the same time and one of them wrote a
\* rate-limit record
C17_Witness ==
    /\ \A w \in Workers : calls.of[w].pc = "done" /\ calls.of[w].status = 200
    /\ calls.of["w1"].request.user_id # calls.of["w2"].request.user_id
    /\ RateLimitRecords(store) # {}
    /\ RateLimitRecords(calls.base.store) = {}
    /\ Cardinality(ContextItems(store, "rate_limits")) >= 1

(***************************************************************************)
(* C18: a successful chat turn continues the thread of its session: the    *)
(* thread after the turn is the thread before it followed by the human     *)
(* message carrying the request's message (with the retrieved context) and *)
(* by exactly one model message; the reported conversation_length is the   *)
(* length of the thread before the turn plus 2; no other thread changes.   *)
(***************************************************************************)
C18_TurnContinuesThread ==
    [][(ChatCalled /\ last'.status = 200) =>
          LET before == threads[ChatSession]
              after == threads'[ChatSession]
              n == Len(before)
          IN  /\ Len(after) = n + 2
              /\ SubSeq(after, 1, n) = before
              /\ after[n + 1].type = "human"
              /\ after[n + 1].content.question = last'.request.message
              /\ Len(after[n + 1].content.context) = last'.body.context_items_found
              /\ after[n + 2].type = "ai"
              /\ last'.body.message = after[n + 2].content
              /\ last'.body.conversation_length = n + 2
              /\ \A s \in SessionIds \ {ChatSession} : threads'[s] = threads[s]]_vars

\* a turn on a thread that already held two exchanges
C18_Witness ==
    /\ last.op = "chat"
    /\ last.status = 200
    /\ last.body.conversation_length = 6
    /\ last.body.context_items_found = 2

(***************************************************************************)
(* C19: a successful chat turn adds exactly one context item to the        *)
(* namespace of its user, under a key no item had before, holding the      *)
(* message of the request as sent (not the enriched one) and the           *)
(* session_id; a chat turn that is rejected or fails adds none; and no     *)
(* operation changes a context item that exists: after any step an item    *)
(* is as it was, or was deleted, or is new.                                *)
(***************************************************************************)
AllContextItems(st) == {i \in st : "data" \in DOMAIN i.value}

C19_OneImmutableItemPerTurn ==
    [][/\ (ChatCalled /\ last'.status = 200) =>
            \E item \in store' :
                /\ item.namespace = <<ChatUser>>
                /\ item.value = [data |-> last'.request.message,
                                 session_id |-> ChatSession]
                /\ \A i \in store : i.key # item.key
                /\ AllContextItems(store') = AllContextItems(store) \cup {item}
       /\ (ChatCalled /\ last'.status # 200) =>
            AllContextItems(store') = AllContextItems(store)
       /\ \A i \in AllContextItems(store), j \in AllContextItems(store') :
            (i.namespace = j.namespace /\ i.key = j.key) => i = j]_vars

\* a turn has stored its message as sent while its prompt carried context
C19_Witness ==
    /\ last.op = "chat"
    /\ last.status = 200
    /\ last.body.context_items_found >= 1
    /\ Cardinality(ContextItems(store, last.body.user_id)) >= 3
    /\ \E i \in ContextItems(store, last.body.user_id) :
          i.value = [data |-> last.request.message, session_id |-> last.body.session_id]

Violated(data) ==
    <<Missing(data, "user_id"),
      Missing(data, "message"),
      Missing(data, "session_id"),
      "model" \in DOMAIN data /\ data["model"] \notin GptSpellings \cup ClaudeSpellings,
      ~Missing(data, "message") /\ len(data["message"]) > 10000>>

CheckErrors ==
    <<"user_id is required", "message is required", "session_id is required",
      "model must be 'gpt' or 'claude'", "Message too long (max 10,000 characters)">>

Earliest(data) == CHOOSE i \in 1..5 : Violated(data)[i] /\ \A j \in 1..(i - 1) : ~Violated(data)[j]

PassesValidation(data) == \A i \in 1..5 : ~Violated(data)[i]

ReportsConfiguration(call) ==
    "error" \in DOMAIN call.body /\ call.body.error = "Database configuration error"

C21_FirstFailingCheckReported ==
    [][ChatCalled =>
          /\ ~PassesValidation(last'.request) =>
                /\ last'.status = 400
                /\ last'.body = [error |-> CheckErrors[Earliest(last'.request)],
                                 status |-> "error"]
          /\ ReportsConfiguration(last') => PassesValidation(last'.request)]_vars

\* What the handler does guarantee: the order of the checks for every request
\* whose "model" is a string or is absent, and no configuration error for a
\* request that violates a check, whatever its "model".
StringModelFirstFailingCheckReported ==
    [][ChatCalled =>
          /\ (~PassesValidation(last'.request) /\ Get(last'.request, "model", GPT) # Null) =>
                /\ last'.status = 400
                /\ last'.body = [error |-> CheckErrors[Earliest(last'.request)],
                                 status |-> "error"]
          /\ ReportsConfiguration(last') => PassesValidation(last'.request)]_vars

\* requests that violate several checks, and one that reaches the configuration
SeveralChecksViolated ==
    /\ last.op = "chat"
    /\ last.status = 400
    /\ Cardinality({i \in 1..5 : Violated(last.request)[i]}) >= 3
    /\ last.body.error = "message is required"

ConfigurationReported ==
    /\ last.op = "chat"
    /\ last.status = 500
    /\ ReportsConfiguration(last)

(***************************************************************************)
(* C22: when every model call answers and calls do not overlap, every      *)
(* thread holds twice as many messages as chat turns were answered 200 on  *)
(* its session since it was last cleared; so a turn answered 200 reports   *)
(* an even conversation_length, never 11, and the rate limit is applied    *)
(* from the sixth turn of a thread on, first with conversation_length 12.  *)
(***************************************************************************)
C22_ThreadsGrowInPairs ==
    /\ \A s \in SessionIds : Len(threads[s]) = 2 * turns[s]
    /\ (last.op = "chat" /\ last.status = 200) =>
          /\ last.body.conversation_length = 2 * turns[last.body.session_id]
          /\ last.body.conversation_length # 11
          /\ last.body.rate_limited <=> turns[last.body.session_id] >= 6
          /\ turns[last.body.session_id] = 6 => last.body.conversation_length = 12

\* the sixth turn of a thread that was cleared before
C22_Witness ==
    /\ last.op = "chat"
    /\ last.status = 200
    /\ last.body.rate_limited
    /\ last.body.conversation_length = 12
    /\ turns[last.body.session_id] = 6
    /\ clears >= 1
    /\ uuids > 6

(***************************************************************************)
(* C23: clear_history consults the rate-limit record under the identity    *)
(* under which chat wrote it: once a chat turn of a caller has reported a  *)
(* rate limit, a clear_history of the same caller before the expiry is     *)
(* refused with 429 and deletes no thread, whatever user_id the body of    *)
(* the chat request carried.                                               *)
(***************************************************************************)
CallerLimited == \E u \in DOMAIN issued : now < issued[u]

C23_ClearHistoryRefusedForCaller ==
    [][(last'.op = "clear_history" /\ CallerLimited)
        => /\ last'.status = 429
           /\ threads' = threads]_vars

\* What the handler does guarantee: the refusal when the limit was reported
\* for the user_id that is the caller's authenticated id.
ClearHistoryRefusedForOwnUserId ==
    [][(last'.op = "clear_history" /\ now < issued[last'.request.user.id])
        => /\ last'.status = 429
           /\ threads' = threads]_vars

\* the refusal of the caller whose chat requests carried the caller's id
OwnUserIdRefused ==
    /\ last.op = "clear_history"
    /\ last.status = 429
    /\ now < issued[last.request.user.id]

====
